---- MODULE Spec2Model ----
(***************************************************************************)
(* The MRI segmentation web client (App, ResultsPanel, SliceSlider,        *)
(* OverlayControls and services/api.ts) as a state machine, together with  *)
(* the session server it talks to.  The server's code is not part of the   *)
(* sources at hand; its behaviour is taken from the interface contract     *)
(* (sections 4 and 6) and kept in the Server* operators.                   *)
(*                                                                         *)
(* One action is one browser task: a user event handler, or the            *)
(* continuation of a handler after an awaited response.  The state updates *)
(* of one task are committed in one render, and the slice-loading effect   *)
(* of App (useEffect) runs as part of the same step when one of its        *)
(* dependencies changed.                                                   *)
(*                                                                         *)
(* overlayAlpha is counted in slider steps of 0.05, so 20 stands for 1.0.  *)
(***************************************************************************)
EXTENDS Integers, Sequences, FiniteSets

\* ---------------------------------------------------------------- bounds
MaxSessions == 2
MaxSlices == 2
MaxGetInFlight == 2
MaxRunInFlight == 2
MaxDownloads == 2

\* ------------------------------------------------------- program constants
AlphaInit == 10
AlphaMin == 0
AlphaMax == 20
SliceInit == 0
TotalSlicesInit == 1

Null == 0
NoError == "null"
NoDetail == ""
OK == "ok"

NoFile == [file_type |-> "none", num_slices |-> 0]
NoSlice == [session_id |-> Null, slice_index |-> -1, overlay_alpha |-> -1]

ViewModes == {"original", "mask", "overlay"}
Formats == {"nifti", "png"}

\* details the server puts in a failure response
DetailBadUpload == "Unsupported file type"
DetailNotFound == "Session not found"
DetailConflict == "Segmentation already run"
DetailInference == "Inference failed"
DetailOutOfRange == "Slice index out of range"
DetailBadAlpha == "overlay_alpha out of range"
DetailUnsupported == "Unsupported export format"

\* the artifacts a user can drop on the upload zone, and the bundled sample
Volumes == {[file_type |-> "nifti", num_slices |-> MaxSlices],
            [file_type |-> "image", num_slices |-> 1]}
SampleVolume == [file_type |-> "nifti", num_slices |-> MaxSlices]
UploadFailures == {DetailBadUpload, NoDetail}

\* positions the pointer can be dragged to on the opacity slider, in steps
AlphaPointer == {AlphaMin - 1, AlphaMin, AlphaMax, AlphaMax + 1}
\* values a user can type into the slice number box
SliceTyped == -1 .. MaxSlices

VARIABLES
  \* App state (useState hooks)
  sessionId, fileInfo, currentSlice, totalSlices, overlayAlpha, viewMode,
  isUploading, isProcessing, isLoadingResults,
  sliceData, overallStats, processingTime, error,
  \* ResultsPanel state of the mounted panel instance
  isDownloading,
  \* requests awaiting their response, in the order they were sent
  uploadReqs, runReqs, getReqs, downloadReqs,
  \* server: srvSessions[s] is the volume of session s, srvDeleted the
  \* destroyed sessions, segmented the sessions with an attached result
  srvSessions, srvDeleted, segmented,
  \* how the last deleteSession call ended
  deleteOutcome

appVars == <<sessionId, fileInfo, currentSlice, totalSlices, overlayAlpha,
             viewMode, isUploading, isProcessing, isLoadingResults,
             sliceData, overallStats, processingTime, error>>
netVars == <<uploadReqs, runReqs, getReqs, downloadReqs>>
srvVars == <<srvSessions, srvDeleted, segmented>>
vars == <<appVars, isDownloading, netVars, srvVars, deleteOutcome>>

\* ------------------------------------------------------------- helpers
Min(a, b) == IF a < b THEN a ELSE b
Max(a, b) == IF a > b THEN a ELSE b

RemoveAt(q, i) == SubSeq(q, 1, i - 1) \o SubSeq(q, i + 1, Len(q))

\* error.detail || fallback, wrapped in Error and read back as err.message
ErrMessage(detail, fallback) == IF detail = NoDetail THEN fallback ELSE detail

hasResults == Len(overallStats) > 0

\* ----------------------------------------------------------- the server
SrvExists(s) == s \in 1 .. Len(srvSessions) /\ s \notin srvDeleted
SrvSlices(s) == srvSessions[s].num_slices
SrvKind(s) == srvSessions[s].file_type

\* the statistics and the duration of the run of session s
Statistics(s) == <<[class_id |-> 0, session_id |-> s]>>
ProcessingTimeMs(s) == s

\* run(sessionId): the details it can fail with, and whether it can succeed
ServerRunFailures(s) ==
  IF ~SrvExists(s) THEN {DetailNotFound}
  ELSE IF s \in segmented THEN {DetailConflict}
  ELSE {DetailInference, NoDetail}
ServerRunCanSucceed(s) == SrvExists(s) /\ s \notin segmented

\* render(sessionId, sliceIndex, blendFactor): OK or the failure detail
ServerRender(s, i, a) ==
  IF ~SrvExists(s) \/ s \notin segmented THEN DetailNotFound
  ELSE IF i < 0 \/ i >= SrvSlices(s) THEN DetailOutOfRange
  ELSE IF a < AlphaMin \/ a > AlphaMax THEN DetailBadAlpha
  ELSE OK

\* export(sessionId, format): OK or the failure detail
ServerExport(s, f) ==
  IF ~SrvExists(s) \/ s \notin segmented THEN DetailNotFound
  ELSE IF f = "nifti" /\ SrvKind(s) # "nifti" THEN DetailUnsupported
  ELSE OK

\* delete(sessionId): the HTTP status
ServerDeleteStatus(s) == IF SrvExists(s) THEN 200 ELSE 404

\* ------------------------------------------------------------ rendering
\* a dependency list that leaves out overlayAlpha
DepsChangedNoAlpha ==
  \/ currentSlice' # currentSlice
  \/ sessionId' # sessionId
  \/ Len(overallStats') # Len(overallStats)

\* useEffect of App: runs after the render when a dependency changed
DepsChanged ==
  \/ currentSlice' # currentSlice
  \/ overlayAlpha' # overlayAlpha
  \/ sessionId' # sessionId
  \/ Len(overallStats') # Len(overallStats)
EffectRuns == DepsChanged /\ sessionId' # Null /\ Len(overallStats') > 0

\* sent: the requests after the handler itself; loading: isLoadingResults
\* as the handler left it
AfterRender(sent, loading) ==
  /\ getReqs' = IF EffectRuns
                THEN Append(sent, [session_id |-> sessionId',
                                   slice_index |-> currentSlice',
                                   overlay_alpha |-> overlayAlpha',
                                   segment |-> FALSE])
                ELSE sent
  /\ isLoadingResults' = IF EffectRuns THEN TRUE ELSE loading
  /\ Len(getReqs') <= MaxGetInFlight

\* ResultsPanel is mounted while a session is selected and results exist
PanelMounted == sessionId # Null /\ hasResults
Orphaned(q) ==
  IF q = <<>> THEN <<>>
  ELSE [k \in 1 .. Len(q) |-> [q[k] EXCEPT !.live = FALSE]]
\* a panel that is unmounted loses its state; a new one starts idle, and the
\* downloads of the old one can no longer reach it
PanelRender ==
  IF PanelMounted /\ sessionId' # Null /\ Len(overallStats') > 0
  THEN UNCHANGED <<isDownloading, downloadReqs>>
  ELSE /\ isDownloading' = FALSE
       /\ downloadReqs' = Orphaned(downloadReqs)

Init ==
  /\ sessionId = Null
  /\ fileInfo = NoFile
  /\ currentSlice = SliceInit
  /\ totalSlices = TotalSlicesInit
  /\ overlayAlpha = AlphaInit
  /\ viewMode = "overlay"
  /\ isUploading = FALSE
  /\ isProcessing = FALSE
  /\ isLoadingResults = FALSE
  /\ sliceData = NoSlice
  /\ overallStats = <<>>
  /\ processingTime = Null
  /\ error = NoError
  /\ isDownloading = FALSE
  /\ uploadReqs = <<>>
  /\ runReqs = <<>>
  /\ getReqs = <<>>
  /\ downloadReqs = <<>>
  /\ srvSessions = <<>>
  /\ srvDeleted = {}
  /\ segmented = {}
  /\ deleteOutcome = "none"

\* ------------------------------------------------------ upload / sample
\* the drop zone and the sample button are shown while no session is
\* selected, and are disabled while isUploading
HandleUpload(file) ==
  /\ sessionId = Null
  /\ ~isUploading
  /\ error' = NoError
  /\ isUploading' = TRUE
  /\ uploadReqs' = Append(uploadReqs, [op |-> "upload", file |-> file])
  /\ UNCHANGED <<sessionId, fileInfo, currentSlice, totalSlices,
                 overlayAlpha, viewMode, isProcessing, isLoadingResults,
                 sliceData, overallStats, processingTime, isDownloading,
                 runReqs, getReqs, downloadReqs, srvVars, deleteOutcome>>

HandleLoadSample ==
  /\ sessionId = Null
  /\ ~isUploading
  /\ error' = NoError
  /\ isUploading' = TRUE
  /\ uploadReqs' = Append(uploadReqs, [op |-> "sample", file |-> SampleVolume])
  /\ UNCHANGED <<sessionId, fileInfo, currentSlice, totalSlices,
                 overlayAlpha, viewMode, isProcessing, isLoadingResults,
                 sliceData, overallStats, processingTime, isDownloading,
                 runReqs, getReqs, downloadReqs, srvVars, deleteOutcome>>

\* the server creates the session and the handler stores the response
UploadSuccess(i) ==
  /\ i \in 1 .. Len(uploadReqs)
  /\ Len(srvSessions) < MaxSessions
  /\ LET file == uploadReqs[i].file
         sid == Len(srvSessions) + 1
     IN /\ srvSessions' = Append(srvSessions, file)
        /\ sessionId' = sid
        /\ fileInfo' = file
        /\ totalSlices' = file.num_slices
        /\ currentSlice' = file.num_slices \div 2
  /\ isUploading' = FALSE
  /\ uploadReqs' = RemoveAt(uploadReqs, i)
  /\ UNCHANGED <<overlayAlpha, viewMode, isProcessing, sliceData,
                 overallStats, processingTime, error, runReqs, srvDeleted,
                 segmented, deleteOutcome>>
  /\ PanelRender
  /\ AfterRender(getReqs, isLoadingResults)

UploadFallback(op) == IF op = "sample" THEN "Failed to load sample" ELSE "Upload failed"

UploadFail(i, detail) ==
  /\ i \in 1 .. Len(uploadReqs)
  /\ detail \in UploadFailures
  /\ error' = ErrMessage(detail, UploadFallback(uploadReqs[i].op))
  /\ isUploading' = FALSE
  /\ uploadReqs' = RemoveAt(uploadReqs, i)
  /\ UNCHANGED <<sessionId, fileInfo, currentSlice, totalSlices,
                 overlayAlpha, viewMode, isProcessing, isLoadingResults,
                 sliceData, overallStats, processingTime, isDownloading,
                 runReqs, getReqs, downloadReqs, srvVars, deleteOutcome>>

\* ------------------------------------------------------- segmentation
\* loadSliceResults called with the sessionId of the render it was made in
LoadSliceResults(sid, slice, alpha, seg, sent) ==
  IF sid = Null THEN sent
  ELSE Append(sent, [session_id |-> sid, slice_index |-> slice,
                     overlay_alpha |-> alpha, segment |-> seg])

\* the segment button is shown while a session is selected and there are no
\* results, and is disabled while isProcessing
\* the segment button rendered whether or not there are results
SegmentButtonAlwaysShown == sessionId # Null /\ ~isProcessing

SegmentButtonEnabled == sessionId # Null /\ ~hasResults /\ ~isProcessing

HandleSegment ==
  /\ SegmentButtonEnabled
  /\ Len(runReqs) < MaxRunInFlight
  /\ error' = NoError
  /\ isProcessing' = TRUE
  /\ runReqs' = Append(runReqs, [session_id |-> sessionId,
                                 slice_index |-> currentSlice,
                                 overlay_alpha |-> overlayAlpha])
  /\ UNCHANGED <<sessionId, fileInfo, currentSlice, totalSlices,
                 overlayAlpha, viewMode, isUploading, isLoadingResults,
                 sliceData, overallStats, processingTime, isDownloading,
                 uploadReqs, getReqs, downloadReqs, srvVars, deleteOutcome>>

\* the server attaches the result; the handler stores the statistics and
\* goes on to await loadSliceResults with the values it was started with
RunSuccess(i) ==
  /\ i \in 1 .. Len(runReqs)
  /\ ServerRunCanSucceed(runReqs[i].session_id)
  /\ LET r == runReqs[i]
     IN /\ segmented' = segmented \cup {r.session_id}
        /\ overallStats' = Statistics(r.session_id)
        /\ processingTime' = ProcessingTimeMs(r.session_id)
        /\ runReqs' = RemoveAt(runReqs, i)
        /\ UNCHANGED <<sessionId, fileInfo, currentSlice, totalSlices,
                       overlayAlpha, viewMode, isUploading, isProcessing,
                       sliceData, error, uploadReqs, srvSessions, srvDeleted,
                       deleteOutcome>>
        /\ PanelRender
        /\ AfterRender(LoadSliceResults(r.session_id, r.slice_index,
                                        r.overlay_alpha, TRUE, getReqs),
                       r.session_id # Null \/ isLoadingResults)

\* handleSegment without its finally block
RunFailNoFinally(i, detail) ==
  /\ i \in 1 .. Len(runReqs)
  /\ detail \in ServerRunFailures(runReqs[i].session_id)
  /\ error' = ErrMessage(detail, "Segmentation failed")
  /\ runReqs' = RemoveAt(runReqs, i)
  /\ UNCHANGED <<sessionId, fileInfo, currentSlice, totalSlices,
                 overlayAlpha, viewMode, isUploading, isProcessing,
                 isLoadingResults, sliceData, overallStats, processingTime,
                 isDownloading, uploadReqs, getReqs, downloadReqs, srvVars,
                 deleteOutcome>>

RunFail(i, detail) ==
  /\ i \in 1 .. Len(runReqs)
  /\ detail \in ServerRunFailures(runReqs[i].session_id)
  /\ error' = ErrMessage(detail, "Segmentation failed")
  /\ isProcessing' = FALSE
  /\ runReqs' = RemoveAt(runReqs, i)
  /\ UNCHANGED <<sessionId, fileInfo, currentSlice, totalSlices,
                 overlayAlpha, viewMode, isUploading, isLoadingResults,
                 sliceData, overallStats, processingTime, isDownloading,
                 uploadReqs, getReqs, downloadReqs, srvVars, deleteOutcome>>

\* --------------------------------------------------------- slice results
\* a request sent from handleSegment also ends handleSegment (its finally)
GetSuccess(i) ==
  /\ i \in 1 .. Len(getReqs)
  /\ LET r == getReqs[i]
     IN /\ ServerRender(r.session_id, r.slice_index, r.overlay_alpha) = OK
        /\ sliceData' = [session_id |-> r.session_id,
                         slice_index |-> r.slice_index,
                         overlay_alpha |-> r.overlay_alpha]
        /\ totalSlices' = SrvSlices(r.session_id)
        /\ isLoadingResults' = FALSE
        /\ isProcessing' = IF r.segment THEN FALSE ELSE isProcessing
  /\ getReqs' = RemoveAt(getReqs, i)
  /\ UNCHANGED <<sessionId, fileInfo, currentSlice, overlayAlpha, viewMode,
                 isUploading, overallStats, processingTime, error,
                 isDownloading, uploadReqs, runReqs, downloadReqs, srvVars,
                 deleteOutcome>>

GetFail(i) ==
  /\ i \in 1 .. Len(getReqs)
  /\ LET r == getReqs[i]
         detail == ServerRender(r.session_id, r.slice_index, r.overlay_alpha)
     IN /\ detail # OK
        /\ error' = ErrMessage(detail, "Failed to get results")
        /\ isLoadingResults' = FALSE
        /\ isProcessing' = IF r.segment THEN FALSE ELSE isProcessing
  /\ getReqs' = RemoveAt(getReqs, i)
  /\ UNCHANGED <<sessionId, fileInfo, currentSlice, totalSlices,
                 overlayAlpha, viewMode, isUploading, sliceData,
                 overallStats, processingTime, isDownloading, uploadReqs,
                 runReqs, downloadReqs, srvVars, deleteOutcome>>

\* ----------------------------------------------------------- navigation
\* SliceSlider is shown in the workspace when not processing, with results
\* and slice data, and more than one slice
SliderShown ==
  /\ sessionId # Null
  /\ ~isProcessing
  /\ hasResults
  /\ sliceData # NoSlice
  /\ totalSlices > 1

\* setCurrentSlice(v) and the render after it
SetCurrentSlice(v) ==
  /\ currentSlice' = v
  /\ UNCHANGED <<sessionId, fileInfo, totalSlices, overlayAlpha, viewMode,
                 isUploading, isProcessing, sliceData, overallStats,
                 processingTime, error, isDownloading, uploadReqs, runReqs,
                 downloadReqs, srvVars, deleteOutcome>>
  /\ AfterRender(getReqs, isLoadingResults)

SliceKeyLeft ==
  /\ SliderShown
  /\ currentSlice > 0
  /\ SetCurrentSlice(currentSlice - 1)

SliceKeyRight ==
  /\ SliderShown
  /\ currentSlice < totalSlices - 1
  /\ SetCurrentSlice(currentSlice + 1)

SlicePrev ==
  /\ SliderShown
  /\ currentSlice # 0
  /\ SetCurrentSlice(Max(0, currentSlice - 1))

SliceNext ==
  /\ SliderShown
  /\ currentSlice # totalSlices - 1
  /\ SetCurrentSlice(Min(totalSlices - 1, currentSlice + 1))

\* the range input gives a value between its min and max
SliceRange(v) ==
  /\ SliderShown
  /\ v \in 0 .. totalSlices - 1
  /\ v # currentSlice
  /\ SetCurrentSlice(v)

SliceNumber(val) ==
  /\ SliderShown
  /\ val \in SliceTyped
  /\ val >= 0 /\ val < totalSlices
  /\ val # currentSlice
  /\ SetCurrentSlice(val)

\* a range input that does not hold the value between min and max
AlphaSliderUnclamped(p) == p

\* the value of the opacity range input for a pointer position
AlphaSliderValue(p) == Max(AlphaMin, Min(AlphaMax, p))

\* OverlayControls is shown with results; the slider only in overlay mode
AlphaChange(p) ==
  /\ sessionId # Null
  /\ hasResults
  /\ viewMode = "overlay"
  /\ p \in AlphaPointer
  /\ AlphaSliderValue(p) # overlayAlpha
  /\ overlayAlpha' = AlphaSliderValue(p)
  /\ UNCHANGED <<viewMode, sessionId, fileInfo, currentSlice, totalSlices,
                 isUploading, isProcessing, sliceData, overallStats,
                 processingTime, error, isDownloading, uploadReqs, runReqs,
                 downloadReqs, srvVars, deleteOutcome>>
  /\ AfterRender(getReqs, isLoadingResults)

ViewModeChange(m) ==
  /\ sessionId # Null
  /\ hasResults
  /\ m \in ViewModes
  /\ m # viewMode
  /\ viewMode' = m
  /\ UNCHANGED <<sessionId, fileInfo, currentSlice, totalSlices,
                 overlayAlpha, isUploading, isProcessing, isLoadingResults,
                 sliceData, overallStats, processingTime, error,
                 isDownloading, netVars, srvVars, deleteOutcome>>

\* ---------------------------------------------------------------- reset
HandleReset ==
  /\ sessionId # Null
  /\ sessionId' = Null
  /\ fileInfo' = NoFile
  /\ sliceData' = NoSlice
  /\ overallStats' = <<>>
  /\ processingTime' = Null
  /\ currentSlice' = SliceInit
  /\ totalSlices' = TotalSlicesInit
  /\ error' = NoError
  /\ UNCHANGED <<overlayAlpha, viewMode, isUploading, isProcessing,
                 uploadReqs, runReqs, srvVars, deleteOutcome>>
  /\ PanelRender
  /\ AfterRender(getReqs, isLoadingResults)

DismissError ==
  /\ error # NoError
  /\ error' = NoError
  /\ UNCHANGED <<sessionId, fileInfo, currentSlice, totalSlices,
                 overlayAlpha, viewMode, isUploading, isProcessing,
                 isLoadingResults, sliceData, overallStats, processingTime,
                 isDownloading, netVars, srvVars, deleteOutcome>>

\* ------------------------------------------------------------- download
\* fileType prop of ResultsPanel
FileTypeProp == IF fileInfo # NoFile THEN fileInfo.file_type ELSE "image"

\* both download buttons rendered for every file type
HandleDownloadAnyType(format) ==
  /\ PanelMounted
  /\ format \in Formats
  /\ ~isDownloading
  /\ Len(downloadReqs) < MaxDownloads
  /\ isDownloading' = TRUE
  /\ downloadReqs' = Append(downloadReqs, [session_id |-> sessionId,
                                           format |-> format, live |-> TRUE])
  /\ UNCHANGED <<appVars, uploadReqs, runReqs, getReqs, srvVars,
                 deleteOutcome>>

\* the NIfTI button is rendered for a nifti file only; both buttons are
\* disabled while isDownloading
HandleDownload(format) ==
  /\ PanelMounted
  /\ format \in Formats
  /\ format = "nifti" => FileTypeProp = "nifti"
  /\ ~isDownloading
  /\ Len(downloadReqs) < MaxDownloads
  /\ isDownloading' = TRUE
  /\ downloadReqs' = Append(downloadReqs, [session_id |-> sessionId,
                                           format |-> format, live |-> TRUE])
  /\ UNCHANGED <<appVars, uploadReqs, runReqs, getReqs, srvVars,
                 deleteOutcome>>

\* handleDownload without its finally block
DownloadSettledNoFinally(i) ==
  /\ downloadReqs' = RemoveAt(downloadReqs, i)
  /\ UNCHANGED <<appVars, isDownloading, uploadReqs, runReqs, getReqs,
                 srvVars, deleteOutcome>>

\* finally: setIsDownloading(false), which reaches the panel only if it is
\* still the one the download was started from
DownloadSettled(i) ==
  /\ isDownloading' = IF downloadReqs[i].live THEN FALSE ELSE isDownloading
  /\ downloadReqs' = RemoveAt(downloadReqs, i)
  /\ UNCHANGED <<appVars, uploadReqs, runReqs, getReqs, srvVars,
                 deleteOutcome>>

\* the blob is handed to the browser as a file
DownloadSuccess(i) ==
  /\ i \in 1 .. Len(downloadReqs)
  /\ ServerExport(downloadReqs[i].session_id, downloadReqs[i].format) = OK
  /\ DownloadSettled(i)

\* the failure goes to console.error
DownloadFail(i) ==
  /\ i \in 1 .. Len(downloadReqs)
  /\ ServerExport(downloadReqs[i].session_id, downloadReqs[i].format) # OK
  /\ DownloadSettled(i)

\* --------------------------------------------------------------- delete
\* deleteSession(s) of services/api.ts: resolves on an ok response, throws
\* otherwise
DeleteResult(status) == IF status = 200 THEN "resolved" ELSE "rejected"

DeleteSession(s) ==
  /\ s \in 1 .. MaxSessions
  /\ deleteOutcome' = DeleteResult(ServerDeleteStatus(s))
  /\ srvDeleted' = IF SrvExists(s) THEN srvDeleted \cup {s} ELSE srvDeleted
  /\ UNCHANGED <<appVars, isDownloading, netVars, srvSessions, segmented>>

Next ==
  \/ \E f \in Volumes : HandleUpload(f)
  \/ HandleLoadSample
  \/ \E i \in 1 .. Len(uploadReqs) : UploadSuccess(i)
  \/ \E i \in 1 .. Len(uploadReqs), d \in UploadFailures : UploadFail(i, d)
  \/ HandleSegment
  \/ \E i \in 1 .. Len(runReqs) : RunSuccess(i)
  \/ \E i \in 1 .. Len(runReqs) :
       \E d \in ServerRunFailures(runReqs[i].session_id) : RunFail(i, d)
  \/ \E i \in 1 .. Len(getReqs) : GetSuccess(i)
  \/ \E i \in 1 .. Len(getReqs) : GetFail(i)
  \/ SliceKeyLeft
  \/ SliceKeyRight
  \/ SlicePrev
  \/ SliceNext
  \/ \E v \in 0 .. MaxSlices : SliceRange(v)
  \/ \E v \in SliceTyped : SliceNumber(v)
  \/ \E p \in AlphaPointer : AlphaChange(p)
  \/ \E m \in ViewModes : ViewModeChange(m)
  \/ HandleReset
  \/ DismissError
  \/ \E f \in Formats : HandleDownload(f)
  \/ \E i \in 1 .. Len(downloadReqs) : DownloadSuccess(i)
  \/ \E i \in 1 .. Len(downloadReqs) : DownloadFail(i)

Spec == Init /\ [][Next]_vars

\* the session store under uploads, resets and deleteSession calls
NextDelete ==
  \/ \E f \in Volumes : HandleUpload(f)
  \/ HandleLoadSample
  \/ \E i \in 1 .. Len(uploadReqs) : UploadSuccess(i)
  \/ \E i \in 1 .. Len(uploadReqs), d \in UploadFailures : UploadFail(i, d)
  \/ HandleReset
  \/ \E s \in 1 .. MaxSessions : DeleteSession(s)

SpecDelete == Init /\ [][NextDelete]_vars

\* every request is eventually answered: the oldest request of each kind
\* does not wait forever
FairResponses ==
  /\ WF_vars(\/ UploadSuccess(1)
             \/ \E d \in UploadFailures : UploadFail(1, d))
  /\ WF_vars(\/ RunSuccess(1)
             \/ /\ runReqs # <<>>
                /\ \E d \in ServerRunFailures(runReqs[1].session_id) :
                     RunFail(1, d))
  /\ WF_vars(GetSuccess(1) \/ GetFail(1))

SpecFair == Spec /\ FairResponses

\* ------------------------------------------------------------- properties
GetRange == 1 .. Len(getReqs)
RunRange == 1 .. Len(runReqs)
DownloadRange == 1 .. Len(downloadReqs)

\* C1: every slice-render and export request in flight is for a session whose
\* segmentation run has succeeded.
C1_RequestsOnlySegmented ==
  /\ \A k \in GetRange : getReqs[k].session_id \in segmented
  /\ \A k \in DownloadRange : downloadReqs[k].session_id \in segmented

\* C2: a failed run leaves sessionId and fileInfo as they were, shows the
\* failure's message, leaves overallStats empty and isProcessing false, and
\* the segment button is enabled again for the session of the run when that
\* session is still the selected one.
C2_FailedRunRetryable ==
  [][\A i \in RunRange :
       \A d \in ServerRunFailures(runReqs[i].session_id) :
         RunFail(i, d) =>
           /\ sessionId' = sessionId
           /\ fileInfo' = fileInfo
           /\ error' # NoError
           /\ d # NoDetail => error' = d
           /\ overallStats' = <<>>
           /\ ~isProcessing'
           /\ sessionId = runReqs[i].session_id =>
                (sessionId' = runReqs[i].session_id /\ SegmentButtonEnabled')]_vars

\* a run has failed for the only session created so far, which is still
\* selected and can be run again
C2_Witness ==
  /\ error = DetailInference
  /\ Len(srvSessions) = 1
  /\ sessionId = 1
  /\ fileInfo # NoFile
  /\ SegmentButtonEnabled
  /\ runReqs = <<>>

\* C3: no two run requests for the same session are in flight together, no
\* run request is in flight for a session whose run has succeeded, and no run
\* is answered with Conflict.
C3_RunAtMostOnce ==
  /\ \A j \in RunRange : \A k \in RunRange :
       j # k => runReqs[j].session_id # runReqs[k].session_id
  /\ \A k \in RunRange : runReqs[k].session_id \notin segmented
  /\ \A k \in RunRange :
       DetailConflict \notin ServerRunFailures(runReqs[k].session_id)
  /\ error # DetailConflict

\* the second session is selected and segmented after the first one was
\* segmented and reset, and the opacity has been moved since
C3_Witness ==
  /\ segmented = {1, 2}
  /\ sessionId = 2
  /\ sliceData.session_id = 2
  /\ overlayAlpha # AlphaInit
  /\ ~isProcessing

\* C4: the selected slice is inside 0 .. totalSlices - 1, totalSlices is the
\* slice count of the selected session, and every slice request in flight is
\* inside the range of the session it is for.
C4_SliceInRange ==
  /\ 0 <= currentSlice /\ currentSlice < totalSlices
  /\ sessionId # Null => totalSlices = SrvSlices(sessionId)
  /\ \A k \in GetRange :
       /\ 0 <= getReqs[k].slice_index
       /\ getReqs[k].slice_index < SrvSlices(getReqs[k].session_id)

\* C5: whenever an upload, load-sample, run, get-results or download request
\* fails, the step leaves an error message set.
C5_FailuresShown ==
  [][(\/ \E i \in 1 .. Len(uploadReqs), d \in UploadFailures : UploadFail(i, d)
      \/ \E i \in RunRange :
           \E d \in ServerRunFailures(runReqs[i].session_id) : RunFail(i, d)
      \/ \E i \in GetRange : GetFail(i)
      \/ \E i \in DownloadRange : DownloadFail(i))
     => error' # NoError]_vars

\* C6: deleteSession of a session that is absent on the server resolves.
C6_DeleteIdempotent ==
  [][\A s \in 1 .. MaxSessions :
       (DeleteSession(s) /\ ~SrvExists(s)) => deleteOutcome' = "resolved"]_vars

\* C7: a failed upload leaves sessionId and fileInfo null, sets the error and
\* clears isUploading; and while the error of a failed upload is shown and no
\* session is selected, no run, get-results or download request is sent.
UploadErrors == {ErrMessage(d, UploadFallback(op)) :
                   d \in UploadFailures, op \in {"upload", "sample"}}
NoRequestSent ==
  /\ Len(runReqs') <= Len(runReqs)
  /\ Len(getReqs') <= Len(getReqs)
  /\ Len(downloadReqs') <= Len(downloadReqs)
C7_FailedUploadNoSession ==
  [][/\ \A i \in 1 .. Len(uploadReqs) : \A d \in UploadFailures :
          UploadFail(i, d) =>
            /\ sessionId' = Null
            /\ fileInfo' = NoFile
            /\ error' \in UploadErrors
            /\ ~isUploading'
     /\ (error \in UploadErrors /\ sessionId = Null /\ sessionId' = Null)
          => NoRequestSent]_vars

\* C8: a nifti export in flight is for a session whose source is a nifti
\* volume, a download started from the mounted panel is for the selected
\* session and its recorded file type, and no download in flight would be
\* answered with UnsupportedFormat.
C8_NiftiOnlyForVolumetric ==
  \A k \in DownloadRange :
    LET d == downloadReqs[k]
    IN /\ d.format = "nifti" => SrvKind(d.session_id) = "nifti"
       /\ d.live => (sessionId = d.session_id /\
                     (d.format = "nifti" => fileInfo.file_type = "nifti"))
       /\ ServerExport(d.session_id, d.format) # DetailUnsupported

\* a nifti export is in flight while a segmented flat-image session exists
C8_Witness ==
  /\ \E k \in DownloadRange : downloadReqs[k].format = "nifti"
  /\ \E s \in segmented : SrvKind(s) = "image"

\* C9 as stated: at most one download is in flight, and while one is, the
\* mounted panel has isDownloading true (its buttons are disabled).
C9_OneDownloadInFlight ==
  /\ Len(downloadReqs) <= 1
  /\ (PanelMounted /\ Len(downloadReqs) = 1) => isDownloading

\* C9 amended: starting or settling a download changes no App state; the
\* mounted panel's isDownloading is true exactly while a download started
\* from that panel is in flight, and there is at most one such download.
LiveDownloads == {k \in DownloadRange : downloadReqs[k].live}
C9_DownloadFrame ==
  /\ [](Cardinality(LiveDownloads) <= 1 /\ (isDownloading <=> LiveDownloads # {}))
  /\ [][/\ \A i \in DownloadRange :
             (DownloadSuccess(i) \/ DownloadFail(i)) =>
               /\ UNCHANGED appVars
               /\ downloadReqs[i].live => ~isDownloading'
        /\ \A f \in Formats :
             HandleDownload(f) => (UNCHANGED appVars /\ isDownloading')]_vars

\* a download of the mounted panel is in flight together with one that was
\* started before a reset
C9_Witness ==
  /\ \E k \in DownloadRange : downloadReqs[k].live
  /\ \E k \in DownloadRange : ~downloadReqs[k].live

\* C10: overlayAlpha, and the alpha of every request in flight or captured by
\* a running handleSegment, is within [0,1], and no request is answered with
\* InvalidArgument.
AlphaValid(a) == AlphaMin <= a /\ a <= AlphaMax
C10_AlphaInRange ==
  /\ AlphaValid(overlayAlpha)
  /\ \A k \in GetRange : AlphaValid(getReqs[k].overlay_alpha)
  /\ \A k \in RunRange : AlphaValid(runReqs[k].overlay_alpha)
  /\ \A k \in GetRange :
       ServerRender(getReqs[k].session_id, getReqs[k].slice_index,
                    getReqs[k].overlay_alpha) # DetailBadAlpha
  /\ error # DetailBadAlpha

\* a request carrying the slider's maximum is in flight
C10_Witness ==
  \E k \in GetRange : getReqs[k].overlay_alpha = AlphaMax /\ overlayAlpha = AlphaMax

\* C11: while a session is selected and results exist, a step that changes
\* currentSlice or overlayAlpha sends exactly one getResults request, for the
\* selected session and the new slice and alpha, and sends no run request.
C11_ChangeSendsRequest ==
  [][(/\ PanelMounted
      /\ sessionId' = sessionId
      /\ Len(overallStats') > 0
      /\ (currentSlice' # currentSlice \/ overlayAlpha' # overlayAlpha))
     => /\ Len(getReqs') = Len(getReqs) + 1
        /\ getReqs'[Len(getReqs')] = [session_id |-> sessionId,
                                      slice_index |-> currentSlice',
                                      overlay_alpha |-> overlayAlpha',
                                      segment |-> FALSE]
        /\ SubSeq(getReqs', 1, Len(getReqs)) = getReqs
        /\ runReqs' = runReqs
        /\ segmented' = segmented]_vars

\* the newest request in flight is the effect's, for a segmented selected
\* session whose slice and alpha have both been moved since the upload
C11_Witness ==
  /\ sessionId \in segmented
  /\ hasResults
  /\ getReqs # <<>>
  /\ getReqs[Len(getReqs)] = [session_id |-> sessionId,
                              slice_index |-> currentSlice,
                              overlay_alpha |-> overlayAlpha,
                              segment |-> FALSE]
  /\ currentSlice # SrvSlices(sessionId) \div 2
  /\ overlayAlpha = AlphaMin
  /\ runReqs = <<>>

\* C12: when no getResults request is in flight and slice data of the
\* selected, segmented session is displayed, it is the data for the selected
\* slice and alpha.
C12_DisplayedSliceIsCurrent ==
  (/\ getReqs = <<>>
   /\ sessionId \in segmented
   /\ hasResults
   /\ sliceData # NoSlice
   /\ sliceData.session_id = sessionId)
  => /\ sliceData.slice_index = currentSlice
     /\ sliceData.overlay_alpha = overlayAlpha

\* C13: with no session selected, overallStats is empty and sliceData and
\* processingTime are null; with a session selected, the statistics, the
\* processing time and the slice data shown are those of that session.
C13_ResetDiscardsResults ==
  /\ sessionId = Null =>
       (overallStats = <<>> /\ sliceData = NoSlice /\ processingTime = Null)
  /\ sessionId # Null =>
       /\ hasResults => overallStats = Statistics(sessionId)
       /\ processingTime # Null => processingTime = ProcessingTimeMs(sessionId)
       /\ sliceData # NoSlice => sliceData.session_id = sessionId

\* C14: each busy flag is true while a request of its kind is in flight.
C14_BusyFlagsTrackRequests ==
  /\ uploadReqs # <<>> => isUploading
  /\ runReqs # <<>> => isProcessing
  /\ getReqs # <<>> => isLoadingResults

\* C14, the eventual part alone: when every request is eventually answered,
\* each busy flag that is true becomes false again.
C14_FlagsEventuallyClear ==
  /\ isUploading ~> ~isUploading
  /\ isProcessing ~> ~isProcessing
  /\ isLoadingResults ~> ~isLoadingResults

TypeOK ==
  /\ sessionId \in 0 .. MaxSessions
  /\ isUploading \in BOOLEAN /\ isProcessing \in BOOLEAN
  /\ isLoadingResults \in BOOLEAN /\ isDownloading \in BOOLEAN
  /\ viewMode \in ViewModes
  /\ Len(getReqs) <= MaxGetInFlight

====
